---- MODULE Spec2Model ----
(***************************************************************************)
(* Model of KqueueIOManager (trio/_core/_io_kqueue.py): the registration   *)
(* table _registered, the kernel queue behind _kqueue as far as the        *)
(* manager can observe it, the tasks suspended in wait_kevent and the      *)
(* scopes opened by monitor_kevent.                                        *)
(***************************************************************************)
EXTENDS Integers, Sequences, FiniteSets, TLC

\* ---------------------------------------------------------------- bounds
\* events that a monitor's queue may hold (nothing in the model takes them out)
MaxQueue == 2

\* ---------------------------------------------------------------- universe
Idents == {7}
KQ_FILTER_READ == "READ"
KQ_FILTER_WRITE == "WRITE"
Filters == {KQ_FILTER_READ, KQ_FILTER_WRITE}
\* key = (ident, filter)
Keys == Idents \X Filters
NoKey == <<0, "NONE">>
Tasks == {"t1", "t2"}
Mons == {"m1"}
\* what callers pass as fd: an int, or an object with fileno()
FdArgs == {[isInt |-> TRUE, v |-> 7], [isInt |-> FALSE, fileno |-> 7]}
Timeouts == {1}
SUCCEEDED == "SUCCEEDED"
FAILED == "FAILED"

VARIABLES
  registered,  \* _registered: key -> receiver (a Task or an UnboundedQueue)
  kq,          \* the kernel queue: per key, the flags of the interest it holds
  task,        \* per task: suspended in yield_indefinitely or not, and for which wait
  mon,         \* per monitor_kevent scope: open or not, its key and its queue
  last,        \* how the most recent call ended: the error it raised and on which
               \* key, or what the abort closure returned
  io           \* what the handle_io call that just returned did: the timeout it
               \* was given, the events that were pending in the kernel, its
               \* polls, the events it retrieved and its dispatches

vars == <<registered, kq, task, mon, last, io>>

NoEntry == [kind |-> "none", who |-> "none"]
IdleTask == [pc |-> "idle", key |-> NoKey, mode |-> "none"]
ClosedMon == [open |-> FALSE, key |-> NoKey, q |-> <<>>]
NoInterest == "none"

\* what a call that is not statistics() leaves in the statistics field
NoStatistics == [tasks_waiting |-> 0, monitors |-> 0]

Raised(op, key, err) ==
  [op |-> op, key |-> key, err |-> err, r |-> "none", stats |-> NoStatistics]
Returned(op, key, r) ==
  [op |-> op, key |-> key, err |-> "none", r |-> r, stats |-> NoStatistics]
Ok == Returned("call", NoKey, "none")
NoIO == [timeout |-> 0, pending |-> <<>>, polls |-> <<>>, events |-> <<>>, log |-> <<>>,
         err |-> "none"]

Min(a, b) == IF a < b THEN a ELSE b

\* ---------------------------------------------------------------- helpers
\* the table has an entry for key (a lookup or a del of a key it does not
\* have raises KeyError)
InTable(reg, key) == reg[key] # NoEntry

\* a registration call that lost its check of the table
IsDuplicate_Never(reg, key) == FALSE

\* `if key in self._registered: raise RuntimeError(...)`
IsDuplicate(reg, key) == reg[key] # NoEntry

\* `if not isinstance(fd, int): fd = fd.fileno()`
Fileno(fd) == IF fd.isInt THEN fd.v ELSE fd.fileno

\* a _wait_common that asks for a lasting interest
WaitCommonFlags_NoOneShot == "add"

\* flags = KQ_EV_ADD | KQ_EV_ONESHOT
WaitCommonFlags == "oneshot"

\* kqueue.control([kevent(ident, filter, EV_ADD | flags)], 0): adds the
\* interest or changes the flags of the one that is there
KqAdd(q, key, flags) == [q EXCEPT ![key] = flags]

\* an abort that forgot to submit the EV_DELETE
KqDelete_Noop(q, key) == q

\* kqueue.control([kevent(ident, filter, EV_DELETE)], 0)
KqDelete(q, key) == [q EXCEPT ![key] = NoInterest]

\* a drain loop that never removes an entry
RemoveOnDispatch_Never(event) == FALSE

\* a drain loop that removes the entry of every event it dispatches
RemoveOnDispatch_Always(event) == TRUE

\* `event.flags & select.KQ_EV_ONESHOT`
RemoveOnDispatch(event) == event.oneshot

\* an abort closure that removes the entry whatever abort_func returned
AbortRemoves_Always(r) == TRUE

\* `r is _core.Abort.SUCCEEDED`
AbortRemoves(r) == r = SUCCEEDED

Init ==
  /\ registered = [k \in Keys |-> NoEntry]
  /\ kq = [k \in Keys |-> NoInterest]
  /\ task = [t \in Tasks |-> IdleTask]
  /\ mon = [m \in Mons |-> ClosedMon]
  /\ last = Ok
  /\ io = NoIO

\* ---------------------------------------------------------------- statistics
\* a count that takes every receiver for a task
IsTask_Always(receiver) == TRUE

\* `type(receiver) is _core.Task`
IsTask(receiver) == receiver.kind = "task"

\* _KqueueStatistics(tasks_waiting=..., monitors=...) counted over
\* self._registered.values()
KqueueStatistics(reg) ==
  LET values == {k \in Keys : InTable(reg, k)}
  IN [tasks_waiting |-> Cardinality({k \in values : IsTask(reg[k])}),
      monitors |-> Cardinality({k \in values : ~IsTask(reg[k])})]

Statistics ==
  /\ last' = [Returned("statistics", NoKey, "none") EXCEPT !.stats = KqueueStatistics(registered)]
  /\ io' = NoIO
  /\ UNCHANGED <<registered, kq, task, mon>>

\* ---------------------------------------------------------------- wait_kevent
\* wait_kevent(ident, filter, abort_func) called by task t, after the
\* kernel state q that its caller left
WaitKeventBody(t, op, key, mode, q) ==
  IF IsDuplicate(registered, key)
  THEN /\ last' = Raised(op, key, "RuntimeError")
       /\ kq' = q
       /\ UNCHANGED <<registered, task>>
  ELSE /\ registered' = [registered EXCEPT ![key] = [kind |-> "task", who |-> t]]
       /\ task' = [task EXCEPT ![t] = [pc |-> "suspended", key |-> key, mode |-> mode]]
       /\ kq' = q
       /\ last' = Ok

WaitKevent(t, ident, filter) ==
  /\ task[t].pc = "idle"
  /\ WaitKeventBody(t, "wait_kevent", <<ident, filter>>, "kevent", kq)
  /\ io' = NoIO
  /\ UNCHANGED mon

\* _wait_common(fd, filter)
WaitCommon(t, op, fdarg, filter) ==
  LET fd == Fileno(fdarg)
      key == <<fd, filter>>
  IN /\ task[t].pc = "idle"
     /\ WaitKeventBody(t, op, key, "fd", KqAdd(kq, key, WaitCommonFlags))
     /\ io' = NoIO
     /\ UNCHANGED mon

WaitReadable(t, fdarg) == WaitCommon(t, "wait_readable", fdarg, KQ_FILTER_READ)

WaitWritable(t, fdarg) == WaitCommon(t, "wait_writable", fdarg, KQ_FILTER_WRITE)

\* the abort closure of wait_kevent, run by the scheduler on a suspended
\* task, after abort_func returned r and left the kernel state q
AbortBody(t, op, r, q) ==
  LET key == task[t].key
  IN IF AbortRemoves(r)
     THEN IF InTable(registered, key)
          THEN /\ registered' = [registered EXCEPT ![key] = NoEntry]
               /\ task' = [task EXCEPT ![t] = IdleTask]
               /\ kq' = q
               /\ last' = Returned(op, key, r)
          ELSE \* del raises KeyError out of the abort closure
               /\ kq' = q
               /\ last' = Raised(op, key, "KeyError")
               /\ UNCHANGED <<registered, task>>
     ELSE /\ kq' = q
          /\ last' = Returned(op, key, r)
          /\ UNCHANGED <<registered, task>>

\* cancellation of a wait made by wait_kevent with the caller's abort_func
AbortWaitKevent(t, r) ==
  /\ task[t].pc = "suspended"
  /\ task[t].mode = "kevent"
  /\ AbortBody(t, "abort_kevent", r, kq)
  /\ io' = NoIO
  /\ UNCHANGED mon

\* cancellation of a wait made by _wait_common: abort_func deletes the
\* kernel interest and returns SUCCEEDED
AbortWaitCommon(t) ==
  /\ task[t].pc = "suspended"
  /\ task[t].mode = "fd"
  /\ IF kq[task[t].key] = NoInterest
     THEN \* EV_DELETE of an interest the kernel does not hold: OSError
          /\ last' = Raised("abort_fd", task[t].key, "OSError")
          /\ UNCHANGED <<registered, task, kq>>
     ELSE AbortBody(t, "abort_fd", SUCCEEDED, KqDelete(kq, task[t].key))
  /\ io' = NoIO
  /\ UNCHANGED mon

\* ---------------------------------------------------------------- monitor_kevent
MonitorEnter(m, ident, filter) ==
  LET key == <<ident, filter>>
  IN /\ ~mon[m].open
     /\ IF IsDuplicate(registered, key)
        THEN /\ last' = Raised("monitor_kevent", key, "RuntimeError")
             /\ UNCHANGED <<registered, mon>>
        ELSE /\ registered' = [registered EXCEPT ![key] = [kind |-> "queue", who |-> m]]
             /\ mon' = [mon EXCEPT ![m] = [open |-> TRUE, key |-> key, q |-> <<>>]]
             /\ last' = Ok
     /\ io' = NoIO
     /\ UNCHANGED <<kq, task>>

\* the finally clause: del self._registered[key]
MonitorExit(m) ==
  LET key == mon[m].key
  IN /\ mon[m].open
     /\ mon' = [mon EXCEPT ![m] = ClosedMon]
     /\ IF InTable(registered, key)
        THEN /\ registered' = [registered EXCEPT ![key] = NoEntry]
             /\ last' = Ok
        ELSE /\ last' = Raised("monitor_exit", key, "KeyError")
             /\ UNCHANGED registered
     /\ io' = NoIO
     /\ UNCHANGED <<kq, task>>

\* ---------------------------------------------------------------- current_kqueue
\* a caller registers an interest on the raw kqueue
RawAdd(key, flags) ==
  /\ kq' = KqAdd(kq, key, flags)
  /\ kq' # kq
  /\ last' = Ok
  /\ io' = NoIO
  /\ UNCHANGED <<registered, task, mon>>

\* a caller deletes an interest on the raw kqueue
RawDelete(key) ==
  /\ kq[key] # NoInterest
  /\ kq' = KqDelete(kq, key)
  /\ last' = Ok
  /\ io' = NoIO
  /\ UNCHANGED <<registered, task, mon>>

\* ---------------------------------------------------------------- handle_io
\* the sets of interests that may be ready when handle_io polls, and the
\* orders in which the kernel may return them
ReadySets(q) == SUBSET {k \in Keys : q[k] # NoInterest}

Orders(S) == {f \in [1..Cardinality(S) -> S] : \A i, j \in 1..Cardinality(S) : f[i] = f[j] => i = j}

ReadyOrders(q) == UNION {Orders(S) : S \in ReadySets(q)}

\* the kevent the kernel returns for a ready interest
EventOf(q, key) == [key |-> key, oneshot |-> q[key] = "oneshot"]

\* a polling loop that passes the caller's timeout to every poll
RECURSIVE PollLoop_KeepTimeout(_, _, _, _, _)
PollLoop_KeepTimeout(pending, max_events, timeout, events, polls) ==
  LET n == Min(max_events, Len(pending))
      events2 == events \o SubSeq(pending, 1, n)
      polls2 == Append(polls, [max_events |-> max_events, timeout |-> timeout, got |-> n])
  IN IF n < max_events
     THEN [events |-> events2, polls |-> polls2]
     ELSE PollLoop_KeepTimeout(SubSeq(pending, n + 1, Len(pending)), max_events, timeout,
                               events2, polls2)

\* the polling loop: batches of at most max_events, until one is not full
RECURSIVE PollLoop(_, _, _, _, _)
PollLoop(pending, max_events, timeout, events, polls) ==
  LET n == Min(max_events, Len(pending))
      batch == SubSeq(pending, 1, n)
      rest == SubSeq(pending, n + 1, Len(pending))
      events2 == events \o batch
      polls2 == Append(polls, [max_events |-> max_events, timeout |-> timeout, got |-> n])
  IN IF Len(batch) < max_events
     THEN [events |-> events2, polls |-> polls2]
     ELSE PollLoop(rest, max_events, 0, events2, polls2)

\* the kernel queue after it returned the events: a one-shot interest that
\* was returned is gone
KqAfterPoll(q, events) ==
  [k \in Keys |->
     IF \E i \in 1..Len(events) : events[i].key = k
     THEN IF q[k] = "oneshot" THEN NoInterest ELSE q[k]
     ELSE q[k]]

\* _core.reschedule(receiver, Value(event))
Reschedule(tk, t) == [tk EXCEPT ![t] = IdleTask]

\* receiver.put_nowait(event)
PutNowait(mn, m, event) == [mn EXCEPT ![m].q = Append(@, event)]

\* how the receiver was waiting when the event was dispatched to it: the
\* mode of the wait if it is a task suspended on this key
WaitOf(tk, receiver, key) ==
  IF receiver.kind = "task" /\ tk[receiver.who].pc = "suspended" /\ tk[receiver.who].key = key
  THEN tk[receiver.who].mode
  ELSE "none"

\* a drain loop that skips an event whose key the table does not hold
MissingEntry_Skip(S, key) == S

\* `receiver = self._registered[key]` when the table has no such key: the
\* KeyError leaves handle_io
MissingEntry(S, key) == [S EXCEPT !.err = "KeyError", !.failed = key]

\* the body of `for event in events`
DispatchOne(S, event) ==
  LET key == event.key
      receiver == S.registered[key]
      reg1 == IF RemoveOnDispatch(event)
              THEN [S.registered EXCEPT ![key] = NoEntry]
              ELSE S.registered
  IN IF ~InTable(S.registered, key)
     THEN MissingEntry(S, key)
     ELSE [registered |-> reg1,
           task |-> IF receiver.kind = "task" THEN Reschedule(S.task, receiver.who) ELSE S.task,
           mon |-> IF receiver.kind = "task" THEN S.mon ELSE PutNowait(S.mon, receiver.who, event),
           log |-> Append(S.log, [key |-> key, oneshot |-> event.oneshot, receiver |-> receiver,
                                  wait |-> WaitOf(S.task, receiver, key)]),
           err |-> "none",
           failed |-> NoKey]

\* a drain loop that goes on after an event whose key the table lacks
RECURSIVE Dispatch_PastErrors(_, _, _)
Dispatch_PastErrors(S, events, i) ==
  IF i > Len(events)
  THEN S
  ELSE Dispatch_PastErrors(DispatchOne(S, events[i]), events, i + 1)

\* a drain loop that takes the second event before the first
Dispatch_SecondFirst(S, events, i) ==
  IF Len(events) = 0 THEN S
  ELSE IF Len(events) = 1 THEN DispatchOne(S, events[1])
  ELSE DispatchOne(DispatchOne(S, events[2]), events[1])

\* a drain loop that stops after the first event
Dispatch_FirstOnly(S, events, i) ==
  IF i > Len(events) THEN S ELSE DispatchOne(S, events[i])

RECURSIVE Dispatch(_, _, _)
Dispatch(S, events, i) ==
  IF i > Len(events) \/ S.err # "none"
  THEN S
  ELSE Dispatch(DispatchOne(S, events[i]), events, i + 1)

HandleIO(timeout, order) ==
  LET max_events == Cardinality({k \in Keys : InTable(registered, k)}) + 1
      pending == [i \in 1..Len(order) |-> EventOf(kq, order[i])]
      polled == PollLoop(pending, max_events, timeout, <<>>, <<>>)
      S0 == [registered |-> registered, task |-> task, mon |-> mon,
             log |-> <<>>, err |-> "none", failed |-> NoKey]
      S == Dispatch(S0, polled.events, 1)
  IN /\ \A m \in Mons : Len(S.mon[m].q) <= MaxQueue
     /\ registered' = S.registered
     /\ task' = S.task
     /\ mon' = S.mon
     /\ kq' = KqAfterPoll(kq, polled.events)
     /\ io' = [timeout |-> timeout, pending |-> pending, polls |-> polled.polls,
               events |-> polled.events, log |-> S.log, err |-> S.err]
     /\ last' = IF S.err = "none" THEN Ok ELSE Raised("handle_io", S.failed, S.err)

\* ---------------------------------------------------------------- specification
Next ==
  \/ \E t \in Tasks, i \in Idents, f \in Filters : WaitKevent(t, i, f)
  \/ \E t \in Tasks, fd \in FdArgs : WaitReadable(t, fd)
  \/ \E t \in Tasks, fd \in FdArgs : WaitWritable(t, fd)
  \/ \E t \in Tasks, r \in {SUCCEEDED, FAILED} : AbortWaitKevent(t, r)
  \/ \E t \in Tasks : AbortWaitCommon(t)
  \/ \E m \in Mons, i \in Idents, f \in Filters : MonitorEnter(m, i, f)
  \/ \E m \in Mons : MonitorExit(m)
  \/ \E k \in Keys, fl \in {"oneshot", "add"} : RawAdd(k, fl)
  \/ \E k \in Keys : RawDelete(k)
  \/ Statistics
  \/ \E timeout \in Timeouts, order \in ReadyOrders(kq) : HandleIO(timeout, order)

Spec == Init /\ [][Next]_vars

\* the manager used through wait_readable, wait_writable and monitor_kevent
\* only, with no kevent registered on current_kqueue()
PublicNext ==
  \/ \E t \in Tasks, fd \in FdArgs : WaitReadable(t, fd)
  \/ \E t \in Tasks, fd \in FdArgs : WaitWritable(t, fd)
  \/ \E t \in Tasks : AbortWaitCommon(t)
  \/ \E m \in Mons, i \in Idents, f \in Filters : MonitorEnter(m, i, f)
  \/ \E m \in Mons : MonitorExit(m)
  \/ \E timeout \in Timeouts, order \in ReadyOrders(kq) : HandleIO(timeout, order)

\* a handle_io call during which the condition of key is ready
HandleIOSees(key) ==
  \E timeout \in Timeouts, order \in ReadyOrders(kq) :
    /\ \E i \in 1..Len(order) : order[i] = key
    /\ HandleIO(timeout, order)

\* the run loop keeps calling handle_io, and a descriptor that is ready
\* stays ready until a call has seen it: while the kernel holds an interest
\* for a key, a call that retrieves its event happens eventually
PublicFairSpec ==
  /\ Init
  /\ [][PublicNext]_vars
  /\ \A k \in Keys : WF_vars(HandleIOSees(k))

TypeOK ==
  /\ \A k \in Keys : registered[k].kind \in {"none", "task", "queue"}
  /\ \A k \in Keys : kq[k] \in {"none", "oneshot", "add"}
  /\ \A m \in Mons : Len(mon[m].q) <= MaxQueue
  /\ \A k \in Keys : registered[k].kind = "queue" =>
        mon[registered[k].who].open /\ mon[registered[k].who].key = k

\* ---------------------------------------------------------------- properties
\* the step is a call of wait_kevent, wait_readable, wait_writable or
\* monitor_kevent for key
RegistrationCall(key) ==
  \/ \E t \in Tasks : WaitKevent(t, key[1], key[2])
  \/ \E t \in Tasks, fd \in FdArgs :
        key = <<Fileno(fd), KQ_FILTER_READ>> /\ WaitReadable(t, fd)
  \/ \E t \in Tasks, fd \in FdArgs :
        key = <<Fileno(fd), KQ_FILTER_WRITE>> /\ WaitWritable(t, fd)
  \/ \E m \in Mons : MonitorEnter(m, key[1], key[2])

\* the step is a handle_io call (every other call clears io)
HandleIOStep == io' # NoIO

Event(entry) == [key |-> entry.key, oneshot |-> entry.oneshot]

\* C1: the table maps a key to at most one receiver, and a registration call
\* for a key that is in the table raises RuntimeError and leaves the table,
\* the suspended tasks and the open scopes as they were.
C1_DuplicateRejected ==
  [][/\ DOMAIN registered' = Keys
     /\ \A k \in Keys :
          (registered[k] # NoEntry /\ RegistrationCall(k)) =>
             /\ last' = Raised(last'.op, k, "RuntimeError")
             /\ registered' = registered
             /\ task' = task
             /\ mon' = mon]_vars

\* a second wait_readable on a key failed while the first task is still
\* suspended on it
C1_Witness ==
  /\ last.op = "wait_readable"
  /\ last.err = "RuntimeError"
  /\ registered[last.key].kind = "task"
  /\ task[registered[last.key].who] = [pc |-> "suspended", key |-> last.key, mode |-> "fd"]

\* C2: a handle_io call dispatches every event it retrieved once, to the
\* receiver the table held for its key; after a one-shot event was dispatched
\* the key is absent when the call returns, no other dispatch of the call
\* went to that key, and handle_io puts nothing into the table, so the
\* registration gets no further dispatch.
C2_OneShotExactlyOnce ==
  [][HandleIOStep =>
       /\ Len(io'.log) <= Len(io'.events)
       /\ io'.err = "none" => Len(io'.log) = Len(io'.events)
       /\ \A k \in Keys : registered'[k] \in {registered[k], NoEntry}
       /\ \A i \in 1..Len(io'.log) :
            /\ Event(io'.log[i]) = io'.events[i]
            /\ io'.log[i].oneshot =>
                 /\ io'.log[i].receiver = registered[io'.log[i].key]
                 /\ registered'[io'.log[i].key] = NoEntry
                 /\ \A j \in 1..Len(io'.log) : j # i => io'.log[j].key # io'.log[i].key]_vars

\* handle_io has resumed a task waiting in wait_readable with the one-shot
\* event for (7, READ), and the key is no longer in the table
C2_Witness ==
  \E i \in 1..Len(io.log) :
    /\ io.log[i].key = <<7, KQ_FILTER_READ>>
    /\ io.log[i].oneshot
    /\ io.log[i].receiver.kind = "task"
    /\ io.log[i].wait = "fd"
    /\ task[io.log[i].receiver.who].pc = "idle"
    /\ registered[io.log[i].key] = NoEntry

\* C3: every dispatch to a task is the first resumption of a task suspended
\* in wait_kevent on that key, and it removes the entry, whatever flags the
\* event carries.
C3_WaiterResumedOnce ==
  [][HandleIOStep =>
       \A i \in 1..Len(io'.log) :
          io'.log[i].receiver.kind = "task" =>
             /\ io'.log[i].wait # "none"
             /\ registered'[io'.log[i].key] = NoEntry]_vars

\* C4: every task in the table is suspended in wait_kevent for that key.
C4_TableTasksSuspended ==
  \A k \in Keys :
    registered[k].kind = "task" =>
       /\ task[registered[k].who].pc = "suspended"
       /\ task[registered[k].who].key = k

C6_DuplicateBeforeSubmission ==
  [][\A k \in Keys :
       (registered[k] # NoEntry /\ RegistrationCall(k)) =>
          /\ last'.err = "RuntimeError"
          /\ kq' = kq
          /\ registered' = registered]_vars

\* C7: leaving a monitor_kevent scope ends with the key absent from the
\* table and raises no error.
C7_ReleaseBenign ==
  [][\A m \in Mons :
       MonitorExit(m) =>
          /\ registered'[mon[m].key] = NoEntry
          /\ last'.err = "none"]_vars

\* C8: an entry leaves the table only by a delivery on its key, by the
\* release of the scope that made it, or by the abort of the wait that
\* made it.
C8_OwnEntryOnly ==
  [][\A k \in Keys :
       (registered[k] # NoEntry /\ registered'[k] # registered[k]) =>
          \/ HandleIOStep /\ \E i \in 1..Len(io'.log) : io'.log[i].key = k
          \/ \E m \in Mons :
               /\ MonitorExit(m)
               /\ registered[k] = [kind |-> "queue", who |-> m]
          \/ \E t \in Tasks :
               /\ AbortWaitCommon(t) \/ \E r \in {SUCCEEDED, FAILED} : AbortWaitKevent(t, r)
               /\ registered[k] = [kind |-> "task", who |-> t]]_vars

C10_FailedAbortLeavesTable ==
  [][/\ \A t \in Tasks :
          AbortWaitKevent(t, FAILED) =>
             /\ last' = Returned("abort_kevent", task[t].key, FAILED)
             /\ registered' = registered
             /\ task' = task
             /\ kq' = kq
     /\ HandleIOStep =>
          \A i \in 1..Len(io'.log) :
             io'.log[i].wait # "none" => task'[io'.log[i].receiver.who].pc = "idle"]_vars

\* abort_func returned FAILED, and the key still maps to the suspended task
C10_Witness ==
  /\ last.op = "abort_kevent"
  /\ last.r = FAILED
  /\ registered[last.key].kind = "task"
  /\ task[registered[last.key].who] = [pc |-> "suspended", key |-> last.key, mode |-> "kevent"]

\* C11: handle_io retrieves every event that is pending when it starts,
\* however many polls that takes, and when each of them is for a key the
\* table holds at entry it returns without error having dispatched all of
\* them.
C11_DrainsAllPending ==
  [][HandleIOStep =>
       /\ io'.events = io'.pending
       /\ (\A i \in 1..Len(io'.pending) : InTable(registered, io'.pending[i].key)) =>
             /\ io'.err = "none"
             /\ Len(io'.log) = Len(io'.pending)
             /\ \A i \in 1..Len(io'.pending) : Event(io'.log[i]) = io'.pending[i]]_vars

\* handle_io returned after it dispatched two events, to a task and to a
\* monitor's queue that were both in the table
C11_Witness ==
  /\ io.err = "none"
  /\ Len(io.events) = 2
  /\ Len(io.log) = 2
  /\ \E i, j \in 1..2 : io.log[i].receiver.kind = "task" /\ io.log[j].receiver.kind = "queue"

\* the positions in the retrieved events whose key the table did not hold
\* when handle_io started
Unregistered(reg, events) == {i \in 1..Len(events) : ~InTable(reg, events[i].key)}

\* C12: when handle_io retrieved an event whose key is not in the table, it
\* raises KeyError to its caller for the first such event; that event and
\* those after it are not dispatched, and no dispatch ever goes to a key
\* the table did not hold.
C12_MissingEntryRaises ==
  [][HandleIOStep =>
       /\ \A i \in 1..Len(io'.log) : InTable(registered, io'.log[i].key)
       /\ Unregistered(registered, io'.events) # {} =>
            LET bad == CHOOSE i \in Unregistered(registered, io'.events) :
                          \A j \in Unregistered(registered, io'.events) : i <= j
            IN /\ io'.err = "KeyError"
               /\ last' = Raised("handle_io", io'.events[bad].key, "KeyError")
               /\ Len(io'.log) = bad - 1
       /\ Unregistered(registered, io'.events) = {} => last' = Ok]_vars

\* handle_io raised KeyError on an event for (7, WRITE), which the table does
\* not hold, after it had dispatched the event for (7, READ)
C12_Witness ==
  /\ last = Raised("handle_io", <<7, KQ_FILTER_WRITE>>, "KeyError")
  /\ io.err = "KeyError"
  /\ Len(io.events) = 2
  /\ io.events[2].key = <<7, KQ_FILTER_WRITE>>
  /\ Len(io.log) = 1
  /\ ~InTable(registered, <<7, KQ_FILTER_WRITE>>)

\* the tasks suspended in a wait and the scopes that are open
Waiting == {t \in Tasks : task[t].pc = "suspended"}
Monitoring == {m \in Mons : mon[m].open}

\* the table holds the entry of every suspended wait and of every open
\* scope and nothing else: none was delivered to, cancelled or released
Untouched ==
  /\ \A t \in Waiting : registered[task[t].key] = [kind |-> "task", who |-> t]
  /\ \A m \in Monitoring : registered[mon[m].key] = [kind |-> "queue", who |-> m]
  /\ Cardinality({k \in Keys : InTable(registered, k)}) =
        Cardinality(Waiting) + Cardinality(Monitoring)

\* C13: statistics() returns the number of table entries that are tasks
\* as tasks_waiting and the number that are queues as monitors, which add up
\* to the size of the table; with w waits and m scopes registered and none
\* delivered to, cancelled or released it returns (w, m); and the call
\* changes nothing.
C13_StatisticsCountsTable ==
  [][last'.op = "statistics" =>
       /\ last'.stats.tasks_waiting = Cardinality({k \in Keys : registered[k].kind = "task"})
       /\ last'.stats.monitors = Cardinality({k \in Keys : registered[k].kind = "queue"})
       /\ last'.stats.tasks_waiting + last'.stats.monitors =
             Cardinality({k \in Keys : InTable(registered, k)})
       /\ Untouched =>
             /\ last'.stats.tasks_waiting = Cardinality(Waiting)
             /\ last'.stats.monitors = Cardinality(Monitoring)
       /\ registered' = registered
       /\ UNCHANGED <<kq, task, mon>>]_vars

\* statistics() returned (1, 1) with one task suspended in a wait and one
\* scope open
C13_Witness ==
  /\ last.op = "statistics"
  /\ last.stats = [tasks_waiting |-> 1, monitors |-> 1]
  /\ Untouched
  /\ Cardinality(Waiting) = 1
  /\ Cardinality(Monitoring) = 1

\* the events of a handle_io log that went to monitor m, in log order
RECURSIVE PushedTo(_, _)
PushedTo(log, m) ==
  IF log = <<>> THEN <<>>
  ELSE IF Head(log).receiver = [kind |-> "queue", who |-> m]
       THEN <<Event(Head(log))>> \o PushedTo(Tail(log), m)
       ELSE PushedTo(Tail(log), m)

\* C14: the events handle_io retrieved are the pending events in the order
\* the kernel returned them, batch after batch; the i-th dispatch of the
\* call is the i-th of them; and each monitor's queue grows by the events
\* dispatched to it, in that order.
C14_DispatchInKernelOrder ==
  [][HandleIOStep =>
       /\ io'.events = io'.pending
       /\ Len(io'.log) <= Len(io'.pending)
       /\ \A i \in 1..Len(io'.log) : Event(io'.log[i]) = io'.pending[i]
       /\ \A m \in Mons : mon'[m].q = mon[m].q \o PushedTo(io'.log, m)]_vars

\* the kernel returned (7, WRITE) before (7, READ): handle_io dispatched them
\* in that order, the second one to a monitor's queue
C14_Witness ==
  /\ Len(io.log) = 2
  /\ io.events[1].key = <<7, KQ_FILTER_WRITE>>
  /\ io.log[1].key = <<7, KQ_FILTER_WRITE>>
  /\ io.log[2].key = <<7, KQ_FILTER_READ>>
  /\ io.log[2].receiver.kind = "queue"
  /\ \E m \in Mons : mon[m].q # <<>> /\ mon[m].q[Len(mon[m].q)] = io.events[2]

\* C15: every poll of a handle_io call asks for (table size at entry) + 1
\* events, which is at least 1; the first poll gets the caller's timeout and
\* every later one timeout 0; every poll but the last returned exactly that
\* many events and the last returned fewer.
C15_PollCapacityAndTimeout ==
  [][HandleIOStep =>
       LET polls == io'.polls
           capacity == Cardinality({k \in Keys : InTable(registered, k)}) + 1
       IN /\ Len(polls) >= 1
          /\ capacity >= 1
          /\ \A i \in 1..Len(polls) :
               /\ polls[i].max_events = capacity
               /\ polls[i].timeout = IF i = 1 THEN io'.timeout ELSE 0
               /\ polls[i].got <= capacity
               /\ (i < Len(polls)) <=> (polls[i].got = capacity)
          /\ Cardinality({i \in 1..Len(polls) : polls[i].timeout # 0}) <= 1]_vars

\* with one entry in the table handle_io asked for two events, got two from
\* the poll with the caller's timeout and none from a second poll with
\* timeout 0
C15_Witness ==
  /\ Len(io.polls) = 2
  /\ io.polls[1] = [max_events |-> 2, timeout |-> 1, got |-> 2]
  /\ io.polls[2] = [max_events |-> 2, timeout |-> 0, got |-> 0]

\* the step delivers an event for key to task t, which the table held for it
DeliveredTo(t, key) ==
  /\ HandleIOStep
  /\ \E i \in 1..Len(io'.log) :
        io'.log[i].key = key /\ io'.log[i].receiver = [kind |-> "task", who |-> t]

\* the step is the abort of t's wait on key, and it returned SUCCEEDED
CancelledBy(t, key) ==
  \E op \in {"abort_kevent", "abort_fd"} : last' = Returned(op, key, SUCCEEDED)

\* C16: a suspended wait ends only by the delivery of an event for its key
\* or by a successful abort, never by both in one step; it leaves the task
\* resumed, and a cancelled wait leaves no entry through which an event
\* could still reach it.
C16_DeliveredOrCancelled ==
  [][\A t \in Tasks :
       (task[t].pc = "suspended" /\ task'[t] # task[t]) =>
          /\ DeliveredTo(t, task[t].key) \/ CancelledBy(t, task[t].key)
          /\ ~(DeliveredTo(t, task[t].key) /\ CancelledBy(t, task[t].key))
          /\ task'[t] = IdleTask
          /\ CancelledBy(t, task[t].key) =>
                registered'[task[t].key] # [kind |-> "task", who |-> t]]_vars

\* task t has been resumed by handle_io with the event for key
ResumedWith(t, key) ==
  \E i \in 1..Len(io.log) :
    /\ io.log[i].key = key
    /\ io.log[i].receiver = [kind |-> "task", who |-> t]
    /\ io.log[i].wait = "fd"

\* the cancellation of the wait on key has just been requested
CancelRequested(key) == last.op = "abort_fd" /\ last.key = key

\* C17: while handle_io keeps being called and ready descriptors are seen, a
\* task suspended in wait_readable or wait_writable on a key is eventually
\* resumed with the event for that key, unless its cancellation is requested.
C17_ReadyWaitResumed ==
  \A t \in Tasks, k \in Keys :
    (task[t] = [pc |-> "suspended", key |-> k, mode |-> "fd"])
       ~> (ResumedWith(t, k) \/ CancelRequested(k))

\* the step is a call of wait_readable or wait_writable, the abort of such a
\* wait, or a handle_io call
FdStep ==
  \/ \E t \in Tasks, fd \in FdArgs : WaitReadable(t, fd) \/ WaitWritable(t, fd)
  \/ \E t \in Tasks : AbortWaitCommon(t)
  \/ HandleIOStep

\* the kernel holds an interest for a key exactly when the table maps the
\* key to a task, and that interest is one-shot
InterestIffWaiter(q, reg) ==
  \A k \in Keys :
    /\ q[k] \in {NoInterest, "oneshot"}
    /\ (q[k] = "oneshot") <=> (reg[k].kind = "task")

\* nothing but wait_readable and wait_writable is in use: no scope is open,
\* the table holds no queue, every suspended task is in a wait made by
\* _wait_common and the table holds exactly the entries of those waits
OnlyFdWaits ==
  /\ \A m \in Mons : ~mon[m].open
  /\ \A k \in Keys :
       InTable(registered, k) =>
          /\ registered[k].kind = "task"
          /\ task[registered[k].who] = [pc |-> "suspended", key |-> k, mode |-> "fd"]
  /\ \A t \in Tasks :
       task[t].pc = "suspended" =>
          /\ task[t].mode = "fd"
          /\ registered[task[t].key] = [kind |-> "task", who |-> t]

\* C18: when only wait_readable and wait_writable are in use and the kernel
\* holds a one-shot interest for a key exactly when the table maps the key
\* to a task (as in the initial state), then wait_readable, wait_writable,
\* their abort and handle_io each keep it so; and every event handle_io
\* retrieves then has a table entry, so that handle_io does not raise.
C18_InterestIffWaiter ==
  [][/\ (\A k \in Keys : registered[k] = NoEntry /\ kq[k] = NoInterest) =>
          InterestIffWaiter(kq, registered)
     /\ (FdStep /\ OnlyFdWaits /\ InterestIffWaiter(kq, registered)) =>
          /\ OnlyFdWaits'
          /\ InterestIffWaiter(kq', registered')
          /\ HandleIOStep =>
                /\ \A i \in 1..Len(io'.events) : InTable(registered, io'.events[i].key)
                /\ io'.err = "none"]_vars

\* handle_io delivered the event for (7, READ) while another task stays
\* suspended in wait_writable on (7, WRITE): interest and entry are gone for
\* the first key and both still there for the second
C18_Witness ==
  /\ OnlyFdWaits
  /\ Len(io.log) = 1
  /\ io.log[1].key = <<7, KQ_FILTER_READ>>
  /\ io.log[1].wait = "fd"
  /\ kq[<<7, KQ_FILTER_READ>>] = NoInterest
  /\ registered[<<7, KQ_FILTER_READ>>] = NoEntry
  /\ kq[<<7, KQ_FILTER_WRITE>>] = "oneshot"
  /\ registered[<<7, KQ_FILTER_WRITE>>].kind = "task"

\* C19: when handle_io retrieved an event whose key the table lacks, the
\* events before the first such event are dispatched and stay so (a one-shot
\* one has lost its entry, its receiver has the event); the events after it
\* are not dispatched, their entries and receivers are as before the call;
\* and the kernel has dropped the one-shot interest of every retrieved
\* event, dispatched or not.
C19_PartialDrainOnKeyError ==
  [][(HandleIOStep /\ Unregistered(registered, io'.events) # {}) =>
       LET events == io'.events
           bad == CHOOSE i \in Unregistered(registered, events) :
                     \A j \in Unregistered(registered, events) : i <= j
       IN /\ io'.err = "KeyError"
          /\ Len(io'.log) = bad - 1
          /\ \A i \in 1..(bad - 1) :
               /\ Event(io'.log[i]) = events[i]
               /\ io'.log[i].receiver = registered[events[i].key]
               /\ registered'[events[i].key] =
                    IF events[i].oneshot THEN NoEntry ELSE registered[events[i].key]
               /\ io'.log[i].receiver.kind = "task" =>
                    task'[io'.log[i].receiver.who] = IdleTask
               /\ io'.log[i].receiver.kind = "queue" =>
                    mon'[io'.log[i].receiver.who].q =
                       Append(mon[io'.log[i].receiver.who].q, events[i])
          /\ \A i \in (bad + 1)..Len(events) :
               /\ registered'[events[i].key] = registered[events[i].key]
               /\ registered[events[i].key].kind = "task" =>
                    task'[registered[events[i].key].who] = task[registered[events[i].key].who]
               /\ registered[events[i].key].kind = "queue" =>
                    mon'[registered[events[i].key].who] = mon[registered[events[i].key].who]
          /\ \A i \in 1..Len(events) :
               events[i].oneshot => kq'[events[i].key] = NoInterest]_vars

\* handle_io raised KeyError on the event for (7, READ); the one-shot event
\* for (7, WRITE) came after it: its task is still suspended and in the
\* table, and the kernel no longer holds the interest
C19_Witness ==
  /\ last = Raised("handle_io", <<7, KQ_FILTER_READ>>, "KeyError")
  /\ Len(io.events) = 2
  /\ Len(io.log) = 0
  /\ io.events[2] = [key |-> <<7, KQ_FILTER_WRITE>>, oneshot |-> TRUE]
  /\ registered[<<7, KQ_FILTER_WRITE>>].kind = "task"
  /\ task[registered[<<7, KQ_FILTER_WRITE>>].who].pc = "suspended"
  /\ kq[<<7, KQ_FILTER_WRITE>>] = NoInterest

\* the table with the entry of key taken out
Without(reg, key) == [reg EXCEPT ![key] = NoEntry]

====
